---- MODULE Spec2Model ----
(***************************************************************************)
(* Model of examples/view-plugins/date-relative.py: one invocation of the  *)
(* relative date formatter (read stdin -> select field -> format -> print  *)
(* -> exit).                                                               *)
(*                                                                         *)
(* Text is modelled as a sequence of one-character strings, so that        *)
(* str.replace, datetime.fromisoformat, the f-strings and print() are      *)
(* computed character by character.                                        *)
(***************************************************************************)
EXTENDS Integers, Sequences, FiniteSets

VARIABLES stdin, clock, pc, data, date_str, delta, result, exc,
          stdout, stderr, status, calls

vars == <<stdin, clock, pc, data, date_str, delta, result, exc,
          stdout, stderr, status, calls>>

(***************************************************************************)
(* Bounds of the input space.                                              *)
(***************************************************************************)
\* date strings range over the last MaxBack days of February 2024 ...
MaxBack == 6
\* ... and the first MaxAhead days of March 2024
MaxAhead == 7

(***************************************************************************)
(* Python values (JSON values after json.load, and str/None results).      *)
(* t is the type tag; s the text of a str; n the number of an int, or 0/1  *)
(* for a bool.                                                             *)
(***************************************************************************)
None == [t |-> "none", s |-> <<>>, n |-> 0]

StrV(text) == [t |-> "str", s |-> text, n |-> 0]

IntV(k) == [t |-> "int", s |-> <<>>, n |-> k]

BoolV(b) == [t |-> "bool", s |-> <<>>, n |-> IF b THEN 1 ELSE 0]

\* Python truth value of an object, as used by `or` and `not`
Truthy(v) ==
    CASE v.t = "none" -> FALSE
      [] v.t = "str"  -> v.s # <<>>
      [] v.t = "int"  -> v.n # 0
      [] v.t = "bool" -> v.n = 1

(***************************************************************************)
(* Characters and decimal numbers.                                         *)
(***************************************************************************)
Digits == <<"0", "1", "2", "3", "4", "5", "6", "7", "8", "9">>

IsDigit(c) == \E i \in 1..10 : Digits[i] = c

DigitVal(c) == (CHOOSE i \in 1..10 : Digits[i] = c) - 1

\* value of the decimal field s[i..j]; -1 when a character is not a digit
RECURSIVE Field(_, _, _)
Field(s, i, j) ==
    IF i > j THEN 0
    ELSE IF ~IsDigit(s[j]) THEN -1
    ELSE LET rest == Field(s, i, j - 1)
         IN  IF rest < 0 THEN -1 ELSE rest * 10 + DigitVal(s[j])

\* str(k) for k >= 0
RECURSIVE Decimal(_)
Decimal(k) ==
    IF k < 10 THEN <<Digits[k + 1]>>
    ELSE Decimal(k \div 10) \o <<Digits[(k % 10) + 1]>>

\* abs(k)
Abs(k) == IF k < 0 THEN 0 - k ELSE k

\* a code point that UTF-8 cannot encode (a lone surrogate, JSON "\ud800")
Surrogate == "\\ud800"

\* the line terminator
LF == "\n"

(***************************************************************************)
(* date_str.replace('Z', '+00:00'): every occurrence is replaced.          *)
(***************************************************************************)
RECURSIVE ReplaceZ(_)
ReplaceZ(s) ==
    IF s = <<>> THEN <<>>
    ELSE (IF Head(s) = "Z" THEN <<"+", "0", "0", ":", "0", "0">>
                           ELSE <<Head(s)>>) \o ReplaceZ(Tail(s))

(***************************************************************************)
(* datetime.fromisoformat, on the forms                                    *)
(*   YYYY-MM-DD                                                            *)
(*   YYYY-MM-DD?HH:MM:SS          (? is any single separator character)    *)
(*   YYYY-MM-DD?HH:MM:SS+HH:MM    (or -HH:MM)                              *)
(* Any other text raises ValueError (ok = FALSE).  aware tells whether the *)
(* result carries a tzinfo; off is its utcoffset in seconds.               *)
(***************************************************************************)
IsLeap(y) == y % 4 = 0 /\ (y % 100 # 0 \/ y % 400 = 0)

DaysInMonth(y, m) ==
    IF m = 2 THEN (IF IsLeap(y) THEN 29 ELSE 28)
    ELSE IF m \in {4, 6, 9, 11} THEN 30 ELSE 31

BadDate == [ok |-> FALSE, year |-> 0, month |-> 0, day |-> 0, hour |-> 0,
            minute |-> 0, second |-> 0, microsecond |-> 0,
            aware |-> FALSE, off |-> 0]

fromisoformat(s) ==
    LET n  == Len(s)
        y  == Field(s, 1, 4)
        mo == Field(s, 6, 7)
        d  == Field(s, 9, 10)
        dateOk == /\ s[5] = "-" /\ s[8] = "-"
                  /\ y >= 1 /\ mo >= 1 /\ mo <= 12
                  /\ d >= 1 /\ d <= DaysInMonth(y, mo)
        hh == Field(s, 12, 13)
        mi == Field(s, 15, 16)
        ss == Field(s, 18, 19)
        timeOk == /\ s[14] = ":" /\ s[17] = ":"
                  /\ hh >= 0 /\ hh <= 23
                  /\ mi >= 0 /\ mi <= 59
                  /\ ss >= 0 /\ ss <= 59
        oh == Field(s, 21, 22)
        om == Field(s, 24, 25)
        tzOk == /\ s[20] \in {"+", "-"} /\ s[23] = ":"
                /\ oh >= 0 /\ oh <= 23
                /\ om >= 0 /\ om <= 59
        sign == IF s[20] = "-" THEN -1 ELSE 1
    IN  IF n \notin {10, 19, 25} THEN BadDate
        ELSE IF ~dateOk THEN BadDate
        ELSE IF n = 10 THEN
            [ok |-> TRUE, year |-> y, month |-> mo, day |-> d, hour |-> 0,
             minute |-> 0, second |-> 0, microsecond |-> 0,
             aware |-> FALSE, off |-> 0]
        ELSE IF ~timeOk THEN BadDate
        ELSE IF n = 19 THEN
            [ok |-> TRUE, year |-> y, month |-> mo, day |-> d, hour |-> hh,
             minute |-> mi, second |-> ss, microsecond |-> 0,
             aware |-> FALSE, off |-> 0]
        ELSE IF ~tzOk THEN BadDate
        ELSE
            [ok |-> TRUE, year |-> y, month |-> mo, day |-> d, hour |-> hh,
             minute |-> mi, second |-> ss, microsecond |-> 0,
             aware |-> TRUE, off |-> sign * (oh * 3600 + om * 60)]

(***************************************************************************)
(* datetime - datetime and timedelta.                                      *)
(***************************************************************************)
\* days before January 1st of year y
DaysBeforeYear(y) ==
    (y - 1) * 365 + ((y - 1) \div 4) - ((y - 1) \div 100) + ((y - 1) \div 400)

\* days in year y before the first day of month m
RECURSIVE DaysBeforeMonth(_, _)
DaysBeforeMonth(y, m) ==
    IF m = 1 THEN 0
    ELSE DaysBeforeMonth(y, m - 1) + DaysInMonth(y, m - 1)

\* datetime.toordinal(): proleptic Gregorian ordinal of the date part
toordinal(dt) ==
    DaysBeforeYear(dt.year) + DaysBeforeMonth(dt.year, dt.month) + dt.day

\* a // b and a % b of Python (floor division; b > 0)
FloorDiv(a, b) == IF a >= 0 THEN a \div b ELSE 0 - ((b - 1 - a) \div b)

FloorMod(a, b) == a - b * FloorDiv(a, b)

\* timedelta with the carries rounded toward zero instead of toward
\* negative infinity (C-style integer division)
timedelta_trunc(d, s, us) ==
    LET TruncDiv(a, b) == IF a >= 0 THEN a \div b ELSE 0 - ((0 - a) \div b)
        s1 == s + TruncDiv(us, 1000000)
    IN  [days         |-> d + TruncDiv(s1, 86400),
         seconds      |-> s1 - 86400 * TruncDiv(s1, 86400),
         microseconds |-> us - 1000000 * TruncDiv(us, 1000000)]

\* timedelta(days, seconds, microseconds): the normalised representation,
\* 0 <= seconds < 86400 and 0 <= microseconds < 1000000
timedelta(d, s, us) ==
    LET s1 == s + FloorDiv(us, 1000000)
    IN  [days         |-> d + FloorDiv(s1, 86400),
         seconds      |-> FloorMod(s1, 86400),
         microseconds |-> FloorMod(us, 1000000)]

NoDelta == [raised |-> TRUE, days |-> 0, seconds |-> 0, microseconds |-> 0]

\* date.date() - now.date(): the difference of the calendar dates only
Subtract_calendar(date, now) ==
    IF ~date.aware THEN NoDelta
    ELSE [raised |-> FALSE, days |-> toordinal(date) - toordinal(now),
          seconds |-> 0, microseconds |-> 0]

\* date - now, where now = datetime.now(timezone.utc) is aware with offset 0.
\* Mixing a naive date with the aware now raises TypeError.
Subtract(date, now) ==
    IF ~date.aware THEN NoDelta
    ELSE LET secs1 == date.second + date.minute * 60 + date.hour * 3600
             secs2 == now.second + now.minute * 60 + now.hour * 3600
             td    == timedelta(toordinal(date) - toordinal(now),
                                (secs1 - secs2) + (0 - date.off),
                                date.microsecond - now.microsecond)
         IN  [raised |-> FALSE, days |-> td.days, seconds |-> td.seconds,
              microseconds |-> td.microseconds]

(***************************************************************************)
(* The labels.                                                             *)
(***************************************************************************)
Today == <<"T", "o", "d", "a", "y">>

Tomorrow == <<"T", "o", "m", "o", "r", "r", "o", "w">>

Yesterday == <<"Y", "e", "s", "t", "e", "r", "d", "a", "y">>

InDays(k) == <<"i", "n", " ">> \o Decimal(k) \o <<" ", "d", "a", "y", "s">>

DaysAgo(k) == Decimal(k) \o <<" ", "d", "a", "y", "s", " ", "a", "g", "o">>

\* the if/elif chain on days
Label(days) ==
    IF days = 0 THEN Today
    ELSE IF days = 1 THEN Tomorrow
    ELSE IF days = -1 THEN Yesterday
    ELSE IF days > 0 THEN InDays(days)
    ELSE DaysAgo(Abs(days))

\* the timedelta computed inside the try block, or NoDelta when an
\* exception is raised before `days = delta.days`
DeltaOf(v, now) ==
    IF v.t # "str" THEN NoDelta                     \* no .replace attribute
    ELSE LET date == fromisoformat(ReplaceZ(v.s))
         IN  IF ~date.ok THEN NoDelta               \* ValueError
             ELSE Subtract(date, now)               \* may raise TypeError

\* format_relative_date without the `if not date_str` guard
format_relative_date_noguard(v, now) ==
    LET dl == DeltaOf(v, now)
    IN  IF dl.raised THEN v ELSE StrV(Label(dl.days))

\* format_relative_date(date_str) evaluated when the clock reads now
format_relative_date(v, now) ==
    IF ~Truthy(v) THEN StrV(<<>>)
    ELSE LET dl == DeltaOf(v, now)
         IN  IF dl.raised THEN v                    \* except: return date_str
             ELSE StrV(Label(dl.days))

(***************************************************************************)
(* print().                                                                *)
(***************************************************************************)
\* str(v), as print applies it to its argument
Str(v) ==
    CASE v.t = "str"  -> v.s
      [] v.t = "int"  -> IF v.n < 0 THEN <<"-">> \o Decimal(Abs(v.n))
                                    ELSE Decimal(v.n)
      [] v.t = "bool" -> IF v.n = 1 THEN <<"T", "r", "u", "e">>
                                    ELSE <<"F", "a", "l", "s", "e">>
      [] v.t = "none" -> <<"N", "o", "n", "e">>

\* whether the stream's UTF-8 encoder accepts the text
Encodable(text) == \A i \in 1..Len(text) : text[i] # Surrogate

\* the stream after print(text, file=stream)
print_to(stream, text) == stream \o text \o <<LF>>

ErrorPrefix == <<"E", "r", "r", "o", "r", ":", " ">>

(***************************************************************************)
(* str(e) of the exceptions that reach the handler in main.                *)
(***************************************************************************)
\* json.load on the truncated document {"due_date":
MsgTruncated ==
    <<"E", "x", "p", "e", "c", "t", "i", "n", "g", " ", "v", "a", "l", "u",
      "e", ":", " ", "l", "i", "n", "e", " ", "1", " ", "c", "o", "l", "u",
      "m", "n", " ", "1", "3", " ", "(", "c", "h", "a", "r", " ", "1", "2",
      ")">>

\* data.get on the document [1]
MsgNoGet ==
    <<"'", "l", "i", "s", "t", "'", " ", "o", "b", "j", "e", "c", "t", " ",
      "h", "a", "s", " ", "n", "o", " ", "a", "t", "t", "r", "i", "b", "u",
      "t", "e", " ", "'", "g", "e", "t", "'">>

\* print of a text holding a lone surrogate
MsgEncode ==
    <<"'", "u", "t", "f", "-", "8", "'", " ", "c", "o", "d", "e", "c", " ",
      "c", "a", "n", "'", "t", " ", "e", "n", "c", "o", "d", "e", " ", "c",
      "h", "a", "r", "a", "c", "t", "e", "r", " ", "'", "\\", "u", "d", "8",
      "0", "0", "'", " ", "i", "n", " ", "p", "o", "s", "i", "t", "i", "o",
      "n", " ", "0", ":", " ", "s", "u", "r", "r", "o", "g", "a", "t", "e",
      "s", " ", "n", "o", "t", " ", "a", "l", "l", "o", "w", "e", "d">>

(***************************************************************************)
(* Inputs: the documents on standard input and the readings of the clock.  *)
(***************************************************************************)
Pad2(k) == <<Digits[(k \div 10) + 1], Digits[(k % 10) + 1]>>

\* the text 2024-MM-DDTHH:00:00 followed by the designator tz
Iso(mo, d, hh, tz) ==
    <<"2", "0", "2", "4", "-">> \o Pad2(mo) \o <<"-">> \o Pad2(d) \o <<"T">>
        \o Pad2(hh) \o <<":", "0", "0", ":", "0", "0">> \o tz

MonthDays ==
    {<<2, d>> : d \in (30 - MaxBack)..29} \cup {<<3, d>> : d \in 1..MaxAhead}

Hours == {0, 11, 12, 13}

Designators ==
    {<<"Z">>, <<"-", "0", "5", ":", "0", "0">>,
     <<"+", "0", "5", ":", "3", "0">>, <<>>}

IsoStrings ==
    {Iso(md[1], md[2], hh, tz) : md \in MonthDays, hh \in Hours,
                                 tz \in Designators}

NotADate == <<"n", "o", "t", "-", "a", "-", "d", "a", "t", "e">>

OtherStrings ==
    {NotADate,
     <<"2", "0", "2", "4", "-", "0", "3", "-", "0", "4">>,
     <<"2", "0", "2", "4", "-", "0", "2", "-", "3", "0", "T", "0", "0", ":",
       "0", "0", ":", "0", "0", "Z">>,
     <<"Z", "Z">>,
     <<"a", LF, "b">>,
     <<Surrogate>>}

\* a key that is missing from the object reads as None through dict.get
DueValues ==
    {StrV(s) : s \in IsoStrings \cup OtherStrings}
        \cup {None, StrV(<<>>), IntV(0), IntV(5), BoolV(TRUE)}

StartValues == {None, StrV(<<>>), StrV(Iso(3, 3, 12, <<"Z">>)), StrV(NotADate)}

CreatedValues == {None, IntV(0), StrV(Iso(2, 28, 0, <<"Z">>))}

Objects ==
    [kind : {"object"}, due_date : DueValues, start_date : StartValues,
     created : CreatedValues]

\* standard input that is not a JSON object: truncated JSON, and a JSON array
NonObjects ==
    [kind : {"truncated", "array"}, due_date : {None}, start_date : {None},
     created : {None}]

Documents == Objects \cup NonObjects

\* datetime.now(timezone.utc) on 2024-03-01
Instant(hh, mi, ss, us) ==
    [ok |-> TRUE, year |-> 2024, month |-> 3, day |-> 1, hour |-> hh,
     minute |-> mi, second |-> ss, microsecond |-> us,
     aware |-> TRUE, off |-> 0]

Clocks ==
    {Instant(0, 0, 0, 0), Instant(12, 0, 0, 0), Instant(12, 0, 0, 250000),
     Instant(23, 59, 59, 999999)}

(***************************************************************************)
(* The pipeline of main().                                                 *)
(***************************************************************************)
NoData == [kind |-> "none", due_date |-> None, start_date |-> None,
           created |-> None]

Init ==
    /\ stdin \in Documents
    /\ clock \in Clocks
    /\ pc = "load"
    /\ data = NoData
    /\ date_str = None
    /\ delta = NoDelta
    /\ result = None
    /\ exc = <<>>
    /\ stdout = <<>>
    /\ stderr = <<>>
    /\ status = -1
    /\ calls = 0

\* data = json.load(sys.stdin)
Load ==
    /\ pc = "load"
    /\ IF stdin.kind = "truncated"
       THEN /\ exc' = MsgTruncated
            /\ pc' = "except"
            /\ data' = data
       ELSE /\ data' = stdin
            /\ pc' = "select"
            /\ exc' = exc
    /\ UNCHANGED <<stdin, clock, date_str, delta, result, stdout, stderr,
                   status, calls>>

\* the fields consulted in the order start_date, due_date, created
FirstTrue_swapped(a, b, c) ==
    IF Truthy(b) THEN b ELSE IF Truthy(a) THEN a ELSE c

\* a or b or c: the first operand that is true, else the last one
FirstTrue(a, b, c) == IF Truthy(a) THEN a ELSE IF Truthy(b) THEN b ELSE c

\* date_str = data.get('due_date') or data.get('start_date')
\*                                 or data.get('created')
Select ==
    /\ pc = "select"
    /\ IF data.kind # "object"
       THEN /\ exc' = MsgNoGet
            /\ pc' = "except"
            /\ date_str' = date_str
       ELSE /\ date_str' = FirstTrue(data.due_date, data.start_date,
                                     data.created)
            /\ pc' = "format"
            /\ exc' = exc
    /\ UNCHANGED <<stdin, clock, data, delta, result, stdout, stderr, status,
                   calls>>

\* result = format_relative_date(date_str)
Format ==
    /\ pc = "format"
    /\ result' = format_relative_date(date_str, clock)
    /\ delta' = IF Truthy(date_str) THEN DeltaOf(date_str, clock) ELSE delta
    /\ calls' = calls + 1
    /\ pc' = "print"
    /\ UNCHANGED <<stdin, clock, data, date_str, exc, stdout, stderr, status>>

\* print(result)
print_result ==
    /\ pc = "print"
    /\ IF Encodable(Str(result))
       THEN /\ stdout' = print_to(stdout, Str(result))
            /\ pc' = "return"
            /\ exc' = exc
       ELSE /\ exc' = MsgEncode
            /\ pc' = "except"
            /\ stdout' = stdout
    /\ UNCHANGED <<stdin, clock, data, date_str, delta, result, stderr,
                   status, calls>>

\* the handler without sys.exit(1): main returns after reporting the error
Except_noexit ==
    /\ pc = "except"
    /\ stderr' = print_to(stderr, ErrorPrefix \o exc)
    /\ pc' = "return"
    /\ UNCHANGED <<stdin, clock, data, date_str, delta, result, exc, stdout,
                   status, calls>>

\* except Exception as e: print(f"Error: {e}", file=sys.stderr); sys.exit(1)
Except ==
    /\ pc = "except"
    /\ stderr' = print_to(stderr, ErrorPrefix \o exc)
    /\ status' = 1
    /\ pc' = "exited"
    /\ UNCHANGED <<stdin, clock, data, date_str, delta, result, exc, stdout,
                   calls>>

\* main returns and the interpreter exits with status 0
Return ==
    /\ pc = "return"
    /\ status' = 0
    /\ pc' = "exited"
    /\ UNCHANGED <<stdin, clock, data, date_str, delta, result, exc, stdout,
                   stderr, calls>>

Next == Load \/ Select \/ Format \/ print_result \/ Except \/ Return

Spec == Init /\ [][Next]_vars

(***************************************************************************)
(* Vocabulary of the properties.                                           *)
(***************************************************************************)
Exited == pc = "exited"

\* the run read a JSON object
ObjectRun == stdin.kind = "object"

\* format_relative_date has been called and has returned
Formatted == calls = 1

\* v is a non-empty string that datetime.fromisoformat accepts
Parses(v) == v.t = "str" /\ v.s # <<>> /\ fromisoformat(ReplaceZ(v.s)).ok

\* v is a non-empty string that datetime.fromisoformat rejects
Unparsable(v) == v.t = "str" /\ v.s # <<>> /\ ~fromisoformat(ReplaceZ(v.s)).ok

\* the date that a parsable string denotes
DateOf(v) == fromisoformat(ReplaceZ(v.s))

\* whole seconds from the clock reading to the date (a date without
\* designator read as UTC), leaving the microsecond fields aside
WholeSeconds(date, now) ==
    (toordinal(date) - toordinal(now)) * 86400
        + (date.hour * 3600 + date.minute * 60 + date.second - date.off)
        - (now.hour * 3600 + now.minute * 60 + now.second)

\* d = floor(t / 86400) for the duration t = date - now in seconds, that is
\* d * 86400 <= t < (d + 1) * 86400, with t = WholeSeconds + usd / 10^6
IsFloorDay(d, date, now) ==
    LET usd   == date.microsecond - now.microsecond
        below == d * 86400 - WholeSeconds(date, now)
        above == (d + 1) * 86400 - WholeSeconds(date, now)
    IN  /\ below <= -1 \/ (below = 0 /\ usd >= 0)
        /\ above >= 1 \/ (above = 0 /\ usd < 0)

\* the day-differences that the inputs can produce
DayRange == (0 - (MaxBack + 3))..(MaxAhead + 3)

\* the table of labels
LabelTable(d) ==
    CASE d = 0  -> <<"T", "o", "d", "a", "y">>
      [] d = 1  -> <<"T", "o", "m", "o", "r", "r", "o", "w">>
      [] d = -1 -> <<"Y", "e", "s", "t", "e", "r", "d", "a", "y">>
      [] d > 1  -> <<"i", "n", " ">> \o Decimal(d)
                       \o <<" ", "d", "a", "y", "s">>
      [] d < -1 -> Decimal(0 - d)
                       \o <<" ", "d", "a", "y", "s", " ", "a", "g", "o">>

\* number of line terminators in a text
RECURSIVE Lines(_)
Lines(text) ==
    IF text = <<>> THEN 0
    ELSE (IF Head(text) = LF THEN 1 ELSE 0) + Lines(Tail(text))

\* text starts with prefix
StartsWith(text, prefix) ==
    /\ Len(text) >= Len(prefix)
    /\ SubSeq(text, 1, Len(prefix)) = prefix

\* the current UTC calendar date at 00:00:00Z
MidnightZ(now) == Iso(now.month, now.day, 0, <<"Z">>)

AtMidnight(now) ==
    now.hour = 0 /\ now.minute = 0 /\ now.second = 0 /\ now.microsecond = 0

(***************************************************************************)
(* C1.  For every date string that parses, format_relative_date returns    *)
(* the label that the table gives for the day-difference d between the     *)
(* date and the clock reading: Today, Tomorrow, Yesterday, in d days,      *)
(* |d| days ago; nothing else is returned for a parsed date.               *)
(***************************************************************************)
C1_LabelOfDayDifference ==
    (Formatted /\ Parses(date_str)) =>
        \E d \in DayRange :
            /\ IsFloorDay(d, DateOf(date_str), clock)
            /\ result = StrV(LabelTable(d))

(***************************************************************************)
(* C2.  A due_date equal to the current UTC calendar date at 00:00:00Z,    *)
(* evaluated at any instant of that day, is printed as Today.              *)
(***************************************************************************)
C2_MidnightIsToday ==
    (Exited /\ ObjectRun /\ stdin.due_date = StrV(MidnightZ(clock))) =>
        stdout = Today \o <<LF>>

(***************************************************************************)
(* C2, amended.  A due_date equal to the current UTC calendar date at      *)
(* 00:00:00Z is printed as Today only when the clock reads exactly         *)
(* 00:00:00.000000Z; at every later instant of that day it is printed as   *)
(* Yesterday.  The exit status is 0 in both cases.                         *)
(***************************************************************************)
C2_MidnightIsTodayOrYesterday ==
    (Exited /\ ObjectRun /\ stdin.due_date = StrV(MidnightZ(clock))) =>
        /\ status = 0
        /\ stderr = <<>>
        /\ stdout = (IF AtMidnight(clock) THEN Today ELSE Yesterday) \o <<LF>>

C2_Witness ==
    /\ Exited
    /\ ObjectRun
    /\ stdin.due_date = StrV(MidnightZ(clock))
    /\ clock.hour = 12
    /\ stdout = Yesterday \o <<LF>>

(***************************************************************************)
(* C3.  The day-difference that selects the label is floor(t / 86400) of   *)
(* the signed duration t = date - now in seconds, not the quotient rounded *)
(* toward zero: exactly one day gives 1, +23 hours gives 0, -25 hours      *)
(* gives -2.                                                               *)
(***************************************************************************)
C3_FloorDayDifference ==
    (Formatted /\ ~delta.raised) =>
        LET date == DateOf(date_str)
            t    == WholeSeconds(date, clock)
            us   == date.microsecond - clock.microsecond
        IN  /\ IsFloorDay(delta.days, date, clock)
            /\ (t = 86400 /\ us = 0) => delta.days = 1
            /\ (t = 23 * 3600 /\ us = 0) => delta.days = 0
            /\ (t = 0 - 25 * 3600 /\ us = 0) => delta.days = -2
            /\ result = StrV(Label(delta.days))

C3_Witness ==
    /\ Formatted
    /\ ~delta.raised
    /\ WholeSeconds(DateOf(date_str), clock) = 0 - 25 * 3600
    /\ clock.microsecond = 0
    /\ delta.days = -2

(***************************************************************************)
(* C4.  The value handed to the formatter is the first non-empty one of    *)
(* due_date, start_date, created, in that order; with a non-empty due_date *)
(* the result is that of due_date alone, and with an empty due_date and a  *)
(* non-empty start_date it is that of start_date alone.                    *)
(***************************************************************************)
C4_FieldPriority ==
    (ObjectRun /\ pc \in {"format", "print", "return", "except", "exited"}) =>
        LET due     == stdin.due_date
            start   == stdin.start_date
            created == stdin.created
        IN  /\ Truthy(due) => date_str = due
            /\ (~Truthy(due) /\ Truthy(start)) => date_str = start
            /\ (~Truthy(due) /\ ~Truthy(start) /\ Truthy(created)) =>
                   date_str = created
            /\ (~Truthy(due) /\ ~Truthy(start) /\ ~Truthy(created)) =>
                   ~Truthy(date_str)
            /\ (Formatted /\ Truthy(due)) =>
                   result = format_relative_date(due, clock)
            /\ (Formatted /\ ~Truthy(due) /\ Truthy(start)) =>
                   result = format_relative_date(start, clock)

C4_Witness ==
    /\ Exited
    /\ ObjectRun
    /\ stdin.due_date = StrV(Iso(3, 6, 12, <<"Z">>))
    /\ stdin.start_date = StrV(Iso(3, 3, 12, <<"Z">>))
    /\ clock.hour = 12
    /\ clock.microsecond = 0
    /\ stdout = <<"i", "n", " ", "5", " ", "d", "a", "y", "s", LF>>

(***************************************************************************)
(* C5.  When the selected date string fails to parse, the run is not       *)
(* fatal: the original string is written unmodified as the single line of  *)
(* stdout, nothing is written to stderr and the exit status is 0.          *)
(***************************************************************************)
C5_UnparsableIsEchoed ==
    (Exited /\ ObjectRun /\ Unparsable(date_str)) =>
        /\ stdout = date_str.s \o <<LF>>
        /\ stderr = <<>>
        /\ status = 0

(***************************************************************************)
(* C6.  When due_date, start_date and created are all missing, null or     *)
(* empty, the formatter receives an absent date, stdout is one empty line  *)
(* and the exit status is 0.                                               *)
(***************************************************************************)
C6_AbsentDateGivesEmptyLine ==
    (Exited /\ ObjectRun /\ ~Truthy(stdin.due_date)
        /\ ~Truthy(stdin.start_date) /\ ~Truthy(stdin.created)) =>
        /\ ~Truthy(date_str)
        /\ stdout = <<LF>>
        /\ stderr = <<>>
        /\ status = 0

C6_Witness ==
    /\ Exited
    /\ ObjectRun
    /\ stdin.due_date = StrV(<<>>)
    /\ stdin.start_date = None
    /\ stdin.created = IntV(0)
    /\ stdout = <<LF>>
    /\ status = 0

(***************************************************************************)
(* C7.  Input that is not valid JSON ends with a line starting "Error: "   *)
(* on stderr and exit status 1; every input that is a valid JSON object,   *)
(* whatever its date fields hold, ends with exit status 0.                 *)
(***************************************************************************)
C7_TwoTierExitStatus ==
    Exited =>
        /\ stdin.kind = "truncated" =>
               (StartsWith(stderr, ErrorPrefix) /\ status = 1)
        /\ ObjectRun => status = 0

(***************************************************************************)
(* C8.  Every run ends in one of two outcomes, never a mix: exactly one    *)
(* line on stdout, nothing on stderr and exit status 0; or nothing on      *)
(* stdout, exactly one "Error: <message>" line on stderr and exit status   *)
(* 1.  At most one date value is selected and formatted.                   *)
(***************************************************************************)
C8_OneLineOrOneError ==
    Exited =>
        /\ calls <= 1
        /\ \/ /\ Lines(stdout) = 1
              /\ stdout[Len(stdout)] = LF
              /\ stderr = <<>>
              /\ status = 0
           \/ /\ stdout = <<>>
              /\ StartsWith(stderr, ErrorPrefix)
              /\ Lines(stderr) = 1
              /\ stderr[Len(stderr)] = LF
              /\ status = 1

(***************************************************************************)
(* C8, amended.  Every run ends in one of two outcomes, never a mix: the   *)
(* result was printed exactly once on stdout (its text followed by one     *)
(* line terminator, which is a single line unless the result is an echoed  *)
(* date value that itself contains line terminators), nothing on stderr    *)
(* and exit status 0; or nothing on stdout, exactly one "Error: <message>" *)
(* line on stderr and exit status 1.  At most one date value is selected   *)
(* and formatted.                                                          *)
(***************************************************************************)
C8_OnePrintOrOneError ==
    Exited =>
        /\ calls <= 1
        /\ \/ /\ Formatted
              /\ stdout = Str(result) \o <<LF>>
              /\ Lines(stdout) = 1
                     \/ (result = date_str /\ Lines(Str(date_str)) > 0)
              /\ stderr = <<>>
              /\ status = 0
           \/ /\ stdout = <<>>
              /\ StartsWith(stderr, ErrorPrefix)
              /\ Lines(stderr) = 1
              /\ stderr[Len(stderr)] = LF
              /\ status = 1

C8_Witness ==
    /\ Exited
    /\ status = 0
    /\ date_str = StrV(<<"a", LF, "b">>)
    /\ stdout = <<"a", LF, "b", LF>>
    /\ stderr = <<>>

(***************************************************************************)
(* C9.  Every date string that parses, with or without a Z suffix or UTC   *)
(* offset, including one with no timezone designator, is printed as one of *)
(* the relative-day labels; the raw string is printed only when the string *)
(* fails to parse.                                                         *)
(***************************************************************************)
C9_ParsedStringGivesLabel ==
    (Exited /\ ObjectRun /\ date_str.t = "str" /\ date_str.s # <<>>) =>
        /\ Parses(date_str) =>
               \E d \in DayRange : stdout = LabelTable(d) \o <<LF>>
        /\ stdout = date_str.s \o <<LF>> => ~Parses(date_str)

TypeOK ==
    /\ pc \in {"load", "select", "format", "print", "except", "return",
               "exited"}
    /\ status \in {-1, 0, 1}
    /\ calls \in {0, 1}
====
